---- MODULE Spec2Model ----
(***************************************************************************)
(* Model of examples/dvbinfo/dvbinfo.c: the capture thread                 *)
(* (dvbinfo_capture), the process stage (dvbinfo_process, run on the main  *)
(* thread) and main's start-up and teardown.  The two threads share the    *)
(* ready queue (capture->fifo), the empty pool (capture->empty) and the    *)
(* flag capture->b_alive.  Every access of a thread to one of these is a   *)
(* step of its own; accesses to a thread's locals are folded into the      *)
(* neighbouring step.                                                      *)
(*                                                                         *)
(* buffer.c (buffers and the fifo) and libdvbpsi.c are not part            *)
(* of the source at hand; the queue follows its description in section 4.1 *)
(* of the specification.                                                   *)
(***************************************************************************)
EXTENDS Integers, Sequences, FiniteSets, TLC

\* ---------------------------------------------------------------- bounds
MaxBufs  == 2     \* buffers the allocator can hand out before malloc fails
MaxReads == 2     \* reads the source answers before it is at end-of-input
SizeBits == 12    \* width of size_t, scaled down (2^SizeBits > i_size)

\* ------------------------------------------------------ program constants
CaptureSize == 188           \* capture.size for a file source
EXIT_SUCCESS == 0
EXIT_FAILURE == 1
Running == -1                \* no exit status yet

NULL == 0
BufIds == 1..MaxBufs

VARIABLES
    \* run configuration (params_t)
    output,        \* param->output /= NULL
    b_summary,     \* param->b_summary
    \* dvbinfo_capture_t
    b_alive,       \* capture.b_alive
    fifo,          \* capture.fifo : sequence of buffer ids
    empty,         \* capture.empty: sequence of buffer ids
    \* heap
    bufs,          \* buffer id -> [st, i_size, i_date, tok, len]: tok stands
                   \* for the bytes in p_data, len is the result of the read
                   \* that filled the buffer for its current use
    \* environment
    clock,         \* the time mdate() returned last
    nreads,        \* reads the source has answered
    \* capture thread
    pcC, cbuf, b_eof,
    \* process stage
    pcP, pbuf, b_error, err, stream, popWoken,
    \* summary files
    temp, target, seen,
    \* main
    pcM, ret, status,
    \* observation
    pushed,        \* what capture pushed to the ready queue, in order
    popped,        \* what process obtained from the ready queue, in order
    writes,        \* the pf_write calls, in order
    parsed,        \* the libdvbpsi_process calls, in order
    returned,      \* the tokens process pushed to the empty pool, in order
    engine,        \* calls to the parsing engine, in order
    log            \* error messages, in order

cfgVars  == <<output, b_summary>>
qVars    == <<b_alive, fifo, empty, bufs>>
envVars  == <<clock, nreads>>
capVars  == <<pcC, cbuf, b_eof>>
procVars == <<pcP, pbuf, b_error, err, stream, popWoken>>
fileVars == <<temp, target, seen>>
mainVars == <<pcM, ret, status>>
obsVars  == <<pushed, popped, writes, parsed, returned, engine, log>>
vars == <<cfgVars, qVars, envVars, capVars, procVars, fileVars, mainVars, obsVars>>

\* ------------------------------------------------------------- helpers
Min(a, b) == IF a < b THEN a ELSE b

\* mdate(): the clock is monotonic and each reading of it is later than the
\* one before.  (Two equal readings are not modelled: they order no two
\* buffers differently.)
mdate == clock + 1

\* conversion of a ssize_t result to size_t
SizeMod == 2 ^ SizeBits
ToSizeT(x) == x % SizeMod

\* ------------------------------------------------------------ buffer.c
NoBuf == [st |-> "unalloc", i_size |-> 0, i_date |-> 0, tok |-> 0, len |-> 0]

FreeIds == {i \in BufIds : bufs[i].st = "unalloc"}

\* buffer_new(size): a fresh buffer of capacity size
buffer_new(size) ==
    [st |-> "live", i_size |-> size, i_date |-> 0, tok |-> 0, len |-> 0]

\* buffer_free(b)
buffer_free(bs, b) ==
    [bs EXCEPT ![b].st = IF @ = "live" THEN "freed" ELSE "doublefreed"]

fifo_count(q) == Len(q)
fifo_push(q, b) == Append(q, b)

\* fifo_wake(): releases the thread blocked in fifo_pop of the queue at the
\* time of the call (it then returns NULL unless a buffer has arrived); a
\* thread that calls fifo_pop later is not affected
fifo_wake(woken, blocked) == woken \/ blocked

RECURSIVE FreeAll(_, _)
FreeAll(bs, q) ==
    IF q = <<>> THEN bs ELSE FreeAll(buffer_free(bs, Head(q)), Tail(q))

\* a file of the summary publication: absent, or present with the number
\* of buffers its content accounts for
NoFile == [kind |-> "none", n |-> 0]

\* ----------------------------------------------------------------- Init
\* The state when main reaches line 626: both queues created and empty, no
\* buffer allocated, the options parsed.  capture.b_alive is a field of an
\* automatic variable that nothing has assigned yet.
Init ==
    /\ output \in BOOLEAN
    /\ b_summary \in BOOLEAN
    /\ b_alive \in BOOLEAN
    /\ fifo = <<>>
    /\ empty = <<>>
    /\ bufs = [i \in BufIds |-> NoBuf]
    /\ clock = 0
    /\ nreads = 0
    /\ pcC = "idle" /\ cbuf = NULL /\ b_eof = FALSE
    /\ pcP = "idle" /\ pbuf = NULL /\ b_error = FALSE /\ err = -1
    /\ stream = FALSE /\ popWoken = FALSE
    /\ temp = NoFile /\ target = NoFile /\ seen = <<>>
    /\ pcM = "open" /\ ret = 0 /\ status = Running
    /\ pushed = <<>> /\ popped = <<>> /\ writes = <<>> /\ parsed = <<>>
    /\ returned = <<>> /\ engine = <<>> /\ log = <<>>

\* ------------------------------------------------------ dvbinfo_capture
\* what pf_read can return for a buffer of capacity n: an error, end of
\* input, a short read, a full read
ReadResults(n) == {-1, 0, 1, n}

\* ReadOutcome without the test for a negative result
ReadOutcome_NoErrorTest(size) == IF size = 0 THEN "eof" ELSE "store"

\* ReadOutcome without the test for end of input
ReadOutcome_NoEofTest(size) == IF size < 0 THEN "retry" ELSE "store"

\* lines 275-285: how the capture loop classifies a read result
ReadOutcome(size) ==
    IF size < 0 THEN "retry" ELSE IF size = 0 THEN "eof" ELSE "store"

\* GiveBack that drops the buffer
GiveBack_Leak(q, b) == q

\* lines 277, 282: fifo_push(capture->empty, buffer) after a read that
\* brought no data
GiveBack(q, b) == fifo_push(q, b)

\* OutOfMemory as a return from the thread function
OutOfMemory_Return == "done"

\* lines 271-272: if (buffer == NULL) break: to line 294, after the loop
OutOfMemory == "clear"

\* PoolEmpty with the test inverted
PoolEmpty_Inverted(n) == n # 0

\* line 266: fifo_count(capture->empty) == 0
PoolEmpty(n) == n = 0

\* line 262: while (capture->b_alive && !b_eof)
CaptureLoop ==
    /\ pcC = "loop"
    /\ pcC' = IF b_alive /\ ~b_eof THEN "count" ELSE "clear"
    /\ UNCHANGED <<cfgVars, qVars, envVars, cbuf, b_eof, procVars, fileVars,
                   mainVars, obsVars>>

\* lines 266-267, 271-272: if (fifo_count(capture->empty) == 0) buffer =
\* buffer_new(capture->size), where NULL ends the loop; else go on to pop
CaptureCount ==
    /\ pcC = "count"
    /\ IF PoolEmpty(fifo_count(empty))
       THEN \E ok \in BOOLEAN :
              IF ok /\ FreeIds # {}
              THEN LET b == CHOOSE i \in FreeIds : \A j \in FreeIds : i <= j
                   IN /\ bufs' = [bufs EXCEPT ![b] = buffer_new(CaptureSize)]
                      /\ cbuf' = b
                      /\ pcC' = "read"
              ELSE /\ cbuf' = NULL
                   /\ pcC' = OutOfMemory
                   /\ UNCHANGED bufs
       ELSE /\ pcC' = "pop"
            /\ UNCHANGED <<bufs, cbuf>>
    /\ UNCHANGED <<cfgVars, b_alive, fifo, empty, envVars, b_eof, procVars,
                   fileVars, mainVars, obsVars>>

\* line 269: buffer = fifo_pop(capture->empty); a pop of an empty queue
\* blocks
CapturePop ==
    /\ pcC = "pop"
    /\ IF empty # <<>>
       THEN /\ cbuf' = Head(empty)
            /\ empty' = Tail(empty)
            /\ pcC' = "read"
       ELSE /\ pcC' = "popwait"
            /\ UNCHANGED <<cbuf, empty>>
    /\ UNCHANGED <<cfgVars, b_alive, fifo, bufs, envVars, b_eof, procVars,
                   fileVars, mainVars, obsVars>>

\* lines 274-291: one read into the buffer; a negative result or zero hands
\* the buffer back to the empty pool, a positive one stamps it with mdate()
\* and pushes it to the ready queue.  Only a read that returns data changes
\* the content (tok) of the buffer.
CaptureRead ==
    /\ pcC = "read"
    /\ \E size \in (IF nreads < MaxReads
                    THEN ReadResults(bufs[cbuf].i_size) ELSE {0}) :
         /\ nreads' = Min(nreads + 1, MaxReads)
         /\ IF ReadOutcome(size) = "retry"
            THEN /\ empty' = GiveBack(empty, cbuf)
                 /\ UNCHANGED <<fifo, bufs, b_eof, clock, pushed>>
            ELSE IF ReadOutcome(size) = "eof"
            THEN /\ empty' = GiveBack(empty, cbuf)
                 /\ b_eof' = TRUE
                 /\ UNCHANGED <<fifo, bufs, clock, pushed>>
            ELSE LET t == mdate IN
                 /\ clock' = t
                 /\ bufs' = [bufs EXCEPT ![cbuf].tok = IF size > 0
                                             THEN Len(pushed) + 1 ELSE @,
                                         ![cbuf].len = IF size > 0
                                             THEN size ELSE @,
                                         ![cbuf].i_date = t]
                 /\ fifo' = fifo_push(fifo, cbuf)
                 /\ pushed' = Append(pushed,
                        [buf |-> cbuf, tok |-> bufs'[cbuf].tok, date |-> t])
                 /\ UNCHANGED <<empty, b_eof>>
    /\ cbuf' = NULL
    /\ pcC' = "loop"
    /\ UNCHANGED <<cfgVars, b_alive, procVars, fileVars, mainVars, popped,
                   writes, parsed, returned, engine, log>>

\* line 294: capture->b_alive = false
CaptureClear ==
    /\ pcC = "clear"
    /\ b_alive' = FALSE
    /\ pcC' = "wake"
    /\ UNCHANGED <<cfgVars, fifo, empty, bufs, envVars, cbuf, b_eof, procVars,
                   fileVars, mainVars, obsVars>>

\* lines 295-296: fifo_wake(capture->fifo); return.  The wake releases the
\* thread that is blocked in fifo_pop of that queue at this moment.
CaptureWake ==
    /\ pcC = "wake"
    /\ popWoken' = fifo_wake(popWoken, pcP = "popwait")
    /\ pcC' = "done"
    /\ UNCHANGED <<cfgVars, qVars, envVars, cbuf, b_eof, pcP, pbuf, b_error,
                   err, stream, fileVars, mainVars, obsVars>>

dvbinfo_capture ==
    \/ CaptureLoop \/ CaptureCount \/ CapturePop \/ CaptureRead
    \/ CaptureClear \/ CaptureWake

\* ------------------------------------------------------ dvbinfo_process
\* what pf_write can return (ssize_t) for a request of n bytes: an error,
\* a short count, the full count
WriteResults(n) == {-1, n - 1, n}

\* line 341: size_t size = pf_write(...): the result is stored unsigned
WriteSize(r) == ToSizeT(r)

\* lines 342-351: how the loop classifies the stored write result
WriteOutcome(size, i_size) ==
    IF size < 0 THEN "error" ELSE IF size < i_size THEN "short" ELSE "ok"

\* lines 341, 354: the length handed to pf_write and libdvbpsi_process
DataLen(b) == b.i_size

\* line 323: while (!b_error): where the loop goes from its head
LoopHead(be) == IF ~be THEN "alive" ELSE "exit"

\* WriteBreak as a jump to the label out
WriteBreak_Out == "out"

\* lines 345, 350: break leaves the loop for libdvbpsi_exit at line 385
WriteBreak == "exit"

\* line 386: err = 0 once the loop has ended and the engine is shut down
ErrAfterLoop == 0

\* SummaryAfterOpenFailure that leaves the summary enabled
SummaryAfterOpenFailure_Kept == TRUE

\* line 374: param->b_summary = false, after fopen of the temporary file
\* failed
SummaryAfterOpenFailure == FALSE

\* lines 306-323: the temporary summary name (asprintf can fail: return
\* err), stream = libdvbpsi_init(...) and on NULL "goto out", else the head
\* of the loop.  The first deadline is not kept: whether mdate() has reached
\* a deadline is an input of ProcessBuffer.
ProcessInit ==
    /\ pcP = "start"
    /\ \E nameok \in (IF b_summary THEN BOOLEAN ELSE {TRUE}), ok \in BOOLEAN :
         IF ~nameok
         THEN /\ log' = Append(log, "tempname")
              /\ pcP' = "returned" /\ ret' = err /\ pcM' = "clear"
              /\ UNCHANGED <<stream, engine>>
         ELSE /\ stream' = ok
              /\ engine' = Append(engine, IF ok THEN "init" ELSE "initfail")
              /\ pcP' = IF ok THEN LoopHead(b_error) ELSE "out"
              /\ UNCHANGED <<log, ret, pcM>>
    /\ UNCHANGED <<cfgVars, qVars, envVars, capVars, pbuf, b_error, err,
                   popWoken, fileVars, status, pushed, popped, writes, parsed,
                   returned>>

\* line 326, first operand: !capture->b_alive
ProcessAlive ==
    /\ pcP = "alive"
    /\ pcP' = IF ~b_alive THEN "count" ELSE "pop"
    /\ UNCHANGED <<cfgVars, qVars, envVars, capVars, pbuf, b_error, err,
                   stream, popWoken, fileVars, mainVars, obsVars>>

\* ProcessCount that breaks without looking at the ready queue
ProcessCount_NoDrain ==
    /\ pcP = "count"
    /\ pcP' = "exit"
    /\ UNCHANGED <<cfgVars, qVars, envVars, capVars, pbuf, b_error, err,
                   stream, popWoken, fileVars, mainVars, obsVars>>

\* lines 326-327, second operand: fifo_count(capture->fifo) == 0 -> break
ProcessCount ==
    /\ pcP = "count"
    /\ pcP' = IF fifo_count(fifo) = 0 THEN "exit" ELSE "pop"
    /\ UNCHANGED <<cfgVars, qVars, envVars, capVars, pbuf, b_error, err,
                   stream, popWoken, fileVars, mainVars, obsVars>>

\* line 330: buffer = fifo_pop(capture->fifo), entered: the oldest buffer
\* if there is one, else the thread blocks
ProcessPop ==
    /\ pcP = "pop"
    /\ IF fifo # <<>>
       THEN /\ pbuf' = Head(fifo)
            /\ fifo' = Tail(fifo)
            /\ popped' = Append(popped,
                   [buf |-> Head(fifo), tok |-> bufs[Head(fifo)].tok,
                    date |-> bufs[Head(fifo)].i_date])
            /\ pcP' = "buffer"
            /\ UNCHANGED popWoken
       ELSE /\ pcP' = "popwait"
            /\ popWoken' = FALSE
            /\ UNCHANGED <<pbuf, fifo, popped>>
    /\ UNCHANGED <<cfgVars, b_alive, empty, bufs, envVars, capVars, b_error,
                   err, stream, fileVars, mainVars, pushed, writes,
                   parsed, returned, engine, log>>

\* line 330, leaving the blocked fifo_pop: a buffer has been pushed, or the
\* queue was woken and the pop yields NULL
ProcessPopReturn ==
    /\ pcP = "popwait"
    /\ fifo # <<>> \/ popWoken
    /\ IF fifo # <<>>
       THEN /\ pbuf' = Head(fifo)
            /\ fifo' = Tail(fifo)
            /\ popped' = Append(popped,
                   [buf |-> Head(fifo), tok |-> bufs[Head(fifo)].tok,
                    date |-> bufs[Head(fifo)].i_date])
            /\ pcP' = "buffer"
       ELSE /\ pbuf' = NULL
            /\ pcP' = "null"
            /\ UNCHANGED <<fifo, popped>>
    /\ popWoken' = FALSE
    /\ UNCHANGED <<cfgVars, b_alive, empty, bufs, envVars, capVars, b_error,
                   err, stream, fileVars, mainVars, pushed, writes,
                   parsed, returned, engine, log>>

\* lines 331-337: buffer == NULL: continue if capture->b_alive, else break
ProcessNull ==
    /\ pcP = "null"
    /\ pcP' = IF b_alive THEN LoopHead(b_error) ELSE "exit"
    /\ UNCHANGED <<cfgVars, qVars, envVars, capVars, pbuf, b_error, err,
                   stream, popWoken, fileVars, mainVars, obsVars>>

\* The files of a summary publication, as a reader of the file system sees
\* them: fs = [temp |-> the file psz_temp, target |-> param->summary.file]
\* SumOpen that opens the target path itself for writing
SumOpen_InPlace(fs) ==
    [temp |-> [kind |-> "empty", n |-> 0], target |-> [kind |-> "empty", n |-> 0]]

\* line 362: fopen(psz_temp, "w+") creates or truncates the temporary file
SumOpen(fs) == [fs EXCEPT !.temp = [kind |-> "empty", n |-> 0]]
\* line 365: libdvbpsi_summary(fd, stream, mode) writes the snapshot of the
\* n buffers parsed so far through the stdio buffer
SumRender(fs, n) == [fs EXCEPT !.temp = [kind |-> "partial", n |-> n]]
\* lines 366-367: fflush(fd); fclose(fd)
SumClose(fs) == [fs EXCEPT !.temp = [kind |-> "full", n |-> @.n]]
\* line 368: unlink(param->summary.file)
SumUnlink(fs) == [fs EXCEPT !.target = NoFile]
\* line 369: rename(psz_temp, param->summary.file)
SumRename(fs) == [temp |-> NoFile, target |-> fs.temp]

\* lines 339-382: what the loop does with the buffer it popped: the
\* passthrough write, which can end the loop; libdvbpsi_process; at a
\* deadline a publication of the summary, where a failed fopen clears
\* param->b_summary; fifo_push(capture->empty, buffer).  Only the push
\* touches state shared with the capture thread.  Whether mdate() has
\* reached the deadline is an input; seen keeps the file states that the
\* steps of the latest publication went through.
ProcessBuffer ==
    /\ pcP = "buffer"
    /\ \E r \in (IF output THEN WriteResults(DataLen(bufs[pbuf])) ELSE {0}) :
         LET b == bufs[pbuf]
             what == IF output THEN WriteOutcome(WriteSize(r), b.i_size)
                     ELSE "ok"
         IN /\ writes' = IF output
                         THEN Append(writes, [tok |-> b.tok,
                                  req |-> DataLen(b), res |-> r])
                         ELSE writes
            /\ IF what # "ok"
               THEN /\ log' = Append(log, what)
                    /\ pcP' = WriteBreak
                    /\ UNCHANGED <<b_summary, empty, bufs, pbuf, b_error,
                                   fileVars, parsed, returned, engine>>
               ELSE \E ok \in BOOLEAN,
                       due \in (IF b_summary THEN BOOLEAN ELSE {FALSE}) :
                    \E fok \in (IF due THEN BOOLEAN ELSE {TRUE}) :
                    LET p1 == Append(parsed, [tok |-> b.tok,
                                  len |-> DataLen(b), ok |-> ok])
                        f1 == SumOpen([temp |-> temp, target |-> target])
                        f2 == SumRender(f1, Len(p1))
                        f3 == SumClose(f2)
                        f4 == SumUnlink(f3)
                        f5 == SumRename(f4)
                    IN /\ parsed' = p1
                       /\ b_error' = IF ~ok THEN TRUE ELSE b_error
                       /\ IF due /\ fok
                          THEN /\ seen' = <<f1, f2, f3, f4, f5>>
                               /\ temp' = f5.temp
                               /\ target' = f5.target
                               /\ engine' = engine \o <<"process", "summary">>
                               /\ UNCHANGED <<b_summary, log>>
                          ELSE /\ engine' = Append(engine, "process")
                               /\ log' = IF due THEN Append(log, "summary")
                                         ELSE log
                               /\ b_summary' = IF due THEN SummaryAfterOpenFailure
                                               ELSE b_summary
                               /\ UNCHANGED fileVars
                       /\ empty' = fifo_push(empty, pbuf)
                       /\ bufs' = [bufs EXCEPT ![pbuf].len = 0]
                       /\ returned' = Append(returned, b.tok)
                       /\ pbuf' = NULL
                       /\ pcP' = LoopHead(b_error')
    /\ UNCHANGED <<output, b_alive, fifo, envVars, capVars, err, stream,
                   popWoken, mainVars, pushed, popped>>

\* lines 385-394: after the loop libdvbpsi_exit(stream); err = 0; then, and
\* after "goto out": log b_error, free the buffer still held, return err
ProcessExit ==
    /\ pcP \in {"exit", "out"}
    /\ engine' = IF pcP = "exit" THEN Append(engine, "exit") ELSE engine
    /\ err' = IF pcP = "exit" THEN ErrAfterLoop ELSE err
    /\ log' = IF b_error THEN Append(log, "processing") ELSE log
    /\ bufs' = IF pbuf # NULL THEN buffer_free(bufs, pbuf) ELSE bufs
    /\ ret' = err'
    /\ pcP' = "returned"
    /\ pcM' = "clear"
    /\ UNCHANGED <<cfgVars, b_alive, fifo, empty, envVars, capVars, pbuf,
                   b_error, stream, popWoken, fileVars, status, pushed,
                   popped, writes, parsed, returned>>

dvbinfo_process ==
    \/ ProcessInit \/ ProcessAlive \/ ProcessCount \/ ProcessPop
    \/ ProcessPopReturn \/ ProcessNull \/ ProcessBuffer \/ ProcessExit

\* ----------------------------------------------------------------- main
\* lines 660-663: the exit status
ExitStatus(e) == IF e < 0 THEN EXIT_FAILURE ELSE EXIT_SUCCESS

\* line 627: dvbinfo_open(param); a failed open exits with EXIT_FAILURE
MainOpen ==
    /\ pcM = "open"
    /\ \E ok \in BOOLEAN :
         IF ok
         THEN pcM' = "create" /\ UNCHANGED status
         ELSE pcM' = "exited" /\ status' = EXIT_FAILURE
    /\ UNCHANGED <<cfgVars, qVars, envVars, capVars, procVars, fileVars, ret,
                   obsVars>>

\* lines 629-641: capture.b_alive = true; pthread_create(...); the call of
\* dvbinfo_process.  pthread_create returns 0 or a positive error number, so
\* the test "< 0" at line 630 never holds; the thread is taken to start.
MainCreate ==
    /\ pcM = "create"
    /\ b_alive' = TRUE
    /\ pcC' = "loop"
    /\ pcP' = "start"
    /\ pcM' = "process"
    /\ UNCHANGED <<cfgVars, fifo, empty, bufs, envVars, cbuf, b_eof, pbuf,
                   b_error, err, stream, popWoken, fileVars, ret,
                   status, obsVars>>

\* MainClear that stores true
MainClear_Rearm ==
    /\ pcM = "clear"
    /\ b_alive' = TRUE
    /\ pcM' = "join"
    /\ UNCHANGED <<cfgVars, fifo, empty, bufs, envVars, capVars, procVars,
                   fileVars, ret, status, obsVars>>

\* line 642: capture.b_alive = false
MainClear ==
    /\ pcM = "clear"
    /\ b_alive' = FALSE
    /\ pcM' = "join"
    /\ UNCHANGED <<cfgVars, fifo, empty, bufs, envVars, capVars, procVars,
                   fileVars, ret, status, obsVars>>

\* MainJoin that does not wait for the capture thread
MainJoin_NoWait ==
    /\ pcM = "join"
    /\ pcM' = "close"
    /\ UNCHANGED <<cfgVars, qVars, envVars, capVars, procVars, fileVars, ret,
                   status, obsVars>>

\* line 643: pthread_join(handle, NULL) returns once the thread has returned
MainJoin ==
    /\ pcM = "join"
    /\ pcC = "done"
    /\ pcM' = "close"
    /\ UNCHANGED <<cfgVars, qVars, envVars, capVars, procVars, fileVars, ret,
                   status, obsVars>>

\* lines 645-648: dvbinfo_close(param); params_free(param)
MainClose ==
    /\ pcM = "close"
    /\ pcM' = "wake_fifo"
    /\ UNCHANGED <<cfgVars, qVars, envVars, capVars, procVars, fileVars, ret,
                   status, obsVars>>

\* line 650: fifo_wake(capture.fifo)
MainWakeFifo ==
    /\ pcM = "wake_fifo"
    /\ popWoken' = fifo_wake(popWoken, pcP = "popwait")
    /\ pcM' = "wake_empty"
    /\ UNCHANGED <<cfgVars, qVars, envVars, capVars, pcP, pbuf, b_error, err,
                   stream, fileVars, ret, status, obsVars>>

\* line 651: fifo_wake(capture.empty)
MainWakeEmpty ==
    /\ pcM = "wake_empty"
    /\ pcC' = IF pcC = "popwait" THEN "read" ELSE pcC
    /\ pcM' = "free_fifo"
    /\ UNCHANGED <<cfgVars, qVars, envVars, cbuf, b_eof, procVars, fileVars,
                   ret, status, obsVars>>

\* MainFreeFifo that releases the queue but not the buffers in it
MainFreeFifo_Leak ==
    /\ pcM = "free_fifo"
    /\ fifo' = <<>>
    /\ pcM' = "free_empty"
    /\ UNCHANGED <<cfgVars, b_alive, empty, bufs, envVars, capVars, procVars,
                   fileVars, ret, status, obsVars>>

\* line 653: fifo_free(capture.fifo)
MainFreeFifo ==
    /\ pcM = "free_fifo"
    /\ bufs' = FreeAll(bufs, fifo)
    /\ fifo' = <<>>
    /\ pcM' = "free_empty"
    /\ UNCHANGED <<cfgVars, b_alive, empty, envVars, capVars, procVars,
                   fileVars, ret, status, obsVars>>

\* MainFreeEmpty that releases the queue but not the buffers in it
MainFreeEmpty_Leak ==
    /\ pcM = "free_empty"
    /\ empty' = <<>>
    /\ pcM' = "exit"
    /\ UNCHANGED <<cfgVars, b_alive, fifo, bufs, envVars, capVars, procVars,
                   fileVars, ret, status, obsVars>>

\* line 654: fifo_free(capture.empty)
MainFreeEmpty ==
    /\ pcM = "free_empty"
    /\ bufs' = FreeAll(bufs, empty)
    /\ empty' = <<>>
    /\ pcM' = "exit"
    /\ UNCHANGED <<cfgVars, b_alive, fifo, envVars, capVars, procVars,
                   fileVars, ret, status, obsVars>>

\* lines 660-663: exit(EXIT_FAILURE) if err < 0, else exit(EXIT_SUCCESS)
MainExit ==
    /\ pcM = "exit"
    /\ status' = ExitStatus(ret)
    /\ pcM' = "exited"
    /\ UNCHANGED <<cfgVars, qVars, envVars, capVars, procVars, fileVars, ret,
                   obsVars>>

main ==
    \/ MainOpen \/ MainCreate \/ MainClear \/ MainJoin \/ MainClose
    \/ MainWakeFifo \/ MainWakeEmpty \/ MainFreeFifo \/ MainFreeEmpty
    \/ MainExit

\* -------------------------------------------------------- specification
Next == dvbinfo_capture \/ dvbinfo_process \/ main

Spec == Init /\ [][Next]_vars

\* Both threads are scheduled by the operating system and every call they
\* make other than fifo_pop returns (a read of the source included), so a
\* thread that can take a step eventually takes one.
FairSpec ==
    Spec /\ WF_vars(dvbinfo_capture) /\ WF_vars(dvbinfo_process)
         /\ WF_vars(main)

\* ---------------------------------------------------------------- claims
\* the liveness flag has been cleared after main set it
Cleared == pcC # "idle" /\ ~b_alive

\* both stages have returned
Terminated == pcC = "done" /\ pcP = "returned"

\* C1: once b_alive has been cleared, the capture thread and the process
\* stage both eventually terminate; none stays blocked in fifo_pop.
C1_NoDeadlockOnShutdown == Cleared ~> Terminated

\* the token of a pushed buffer has been fed to the parsing engine
Consumed(tok) == \E i \in DOMAIN parsed : parsed[i].tok = tok

\* the k-th buffer pushed to the ready queue has been dealt with
Settled(k) ==
    /\ k <= Len(pushed)
    /\ \/ k <= Len(popped) /\ Consumed(pushed[k].tok)
       \/ bufs[pushed[k].buf].st = "freed"

\* C2: every buffer pushed to the ready queue is eventually popped and
\* consumed by the process stage, or freed (by buffer_free in the process
\* stage or by fifo_free at teardown).
C2_NoBufferLoss ==
    \A k \in 1..MaxReads : (k <= Len(pushed)) ~> Settled(k)

\* a buffer pushed after the process stage had stopped on an error was freed
\* by main's teardown
C2_Witness ==
    /\ pcM = "exited"
    /\ Len(pushed) > Len(popped)
    /\ b_error
    /\ \A k \in DOMAIN pushed : Settled(k)

IsPrefix(s, t) ==
    /\ Len(s) <= Len(t)
    /\ \A i \in 1..Len(s) : s[i] = t[i]

\* C3: what the process stage obtains from the ready queue is a prefix of
\* what the capture stage pushed (same buffers, same content, same order,
\* none twice, none skipped), and the timestamps do not decrease.
C3_FifoDelivery ==
    /\ IsPrefix(popped, pushed)
    /\ \A i, j \in DOMAIN pushed :
         i < j => /\ pushed[i].tok < pushed[j].tok
                  /\ pushed[i].date <= pushed[j].date
    /\ \A i, j \in DOMAIN parsed : i < j => parsed[i].tok < parsed[j].tok

\* two reads were stored, both buffers were processed in read order and
\* both went back to the empty pool
C3_Witness ==
    /\ Len(pushed) = 2
    /\ popped = pushed
    /\ Len(parsed) = 2
    /\ returned = <<pushed[1].tok, pushed[2].tok>>
    /\ pushed[1].date < pushed[2].date

\* how many times buffer b occurs in queue q
Occurrences(q, b) == Cardinality({i \in DOMAIN q : q[i] = b})

\* how many of the two queues and the two stages hold buffer b
Holders(b) ==
    Occurrences(fifo, b) + Occurrences(empty, b)
    + (IF cbuf = b THEN 1 ELSE 0) + (IF pbuf = b THEN 1 ELSE 0)

\* C4: every allocated buffer that has not been freed is held by exactly
\* one of: the ready queue, the empty queue, the capture stage, the process
\* stage.
C4_ExclusiveOwnership ==
    \A b \in BufIds : bufs[b].st = "live" => Holders(b) = 1

\* both stages hold a buffer, the process stage a recycled one
C4_Witness ==
    /\ cbuf # NULL /\ pbuf # NULL
    /\ bufs[cbuf].st = "live" /\ bufs[pbuf].st = "live"
    /\ Len(returned) > 0

\* some passthrough write returned less than was asked for, or failed
SinkFailed == \E i \in DOMAIN writes : writes[i].res < writes[i].req

\* C5: when the sink write for some buffer returns fewer bytes than
\* requested or fails, dvbinfo_process reports failure and the program ends
\* with a failure exit status.
C5_SinkFailureIsRunFailure ==
    /\ (pcP = "returned" /\ SinkFailed) => ret < 0
    /\ (pcM = "exited" /\ SinkFailed) => status = EXIT_FAILURE

\* the parsing engine rejected a buffer
ParseFailed == \E i \in DOMAIN parsed : ~parsed[i].ok

\* C6: when libdvbpsi_process rejects a buffer the process stage stops after
\* that iteration, reports failure, and the program exits with a non-zero
\* status; the outcome is success only if no parse failure occurred.
C6_ParseFailureIsRunFailure ==
    /\ \A i \in DOMAIN parsed : ~parsed[i].ok => i = Len(parsed)
    /\ (pcP = "returned" /\ ParseFailed) => ret < 0
    /\ (pcM = "exited" /\ ParseFailed) => status = EXIT_FAILURE

\* C7: when pf_write returns a negative value for a buffer, the loop stops
\* at that buffer: it is not fed to the parsing engine and no later buffer is
\* popped, written or parsed.
C7_NegativeWriteIsFatal ==
    \A i \in DOMAIN writes :
      writes[i].res < 0 =>
        /\ i = Len(writes)
        /\ ~Consumed(writes[i].tok)
        /\ \A j \in DOMAIN popped : popped[j].tok <= writes[i].tok

\* the k-th write returned a non-negative count below the requested length
ShortWrite(k) == 0 <= writes[k].res /\ writes[k].res < writes[k].req

\* C8: when the sink write for the k-th buffer is short, the process stage
\* stops at buffer k: buffers 1..k-1 have each been written, fed to the
\* engine and returned to the empty pool, buffer k is not fed to the engine,
\* and no buffer after k is popped, written or parsed.
C8_ShortWriteStops ==
    \A k \in DOMAIN writes :
      ShortWrite(k) =>
        /\ k = Len(writes) /\ k = Len(popped)
        /\ ~Consumed(writes[k].tok)
        /\ \A i \in DOMAIN parsed : parsed[i].tok < writes[k].tok
        /\ \A j \in 1..(k - 1) :
             /\ writes[j].res = writes[j].req
             /\ Consumed(writes[j].tok)
             /\ \E i \in DOMAIN returned : returned[i] = writes[j].tok

\* C9: when libdvbpsi_init succeeded, libdvbpsi_exit has been called exactly
\* once when dvbinfo_process returns, however the loop ended, and no call to
\* the engine follows it.
C9_EngineShutdownRuns ==
    /\ \A i \in DOMAIN engine : engine[i] = "exit" => i = Len(engine)
    /\ (pcP = "returned" /\ stream) =>
          (engine # <<>> /\ engine[Len(engine)] = "exit")

\* dvbinfo_process has returned after a short write ended the loop, with
\* buffers parsed before it, and the engine was shut down
C9_Witness ==
    /\ pcP = "returned" /\ stream
    /\ writes # <<>> /\ ShortWrite(Len(writes))
    /\ parsed # <<>>
    /\ engine[Len(engine)] = "exit"

\* the first read of the source returned 0
FirstReadZero == nreads = 1 /\ b_eof

\* C10: if the first source read returns 0, nothing is pushed to the ready
\* queue, the process stage terminates with no buffer written or parsed, and
\* the run reports success.
C10_ImmediateEndOfInput ==
    FirstReadZero ~>
      (/\ pcP = "returned" /\ pcM = "exited"
       /\ pushed = <<>> /\ writes = <<>> /\ parsed = <<>>
       /\ (stream => status = EXIT_SUCCESS))

\* a file a reader may find at the target path: none, or a complete snapshot
Publishable(f) == f.kind \in {"none", "full"}

\* C11: at every step of a publication (fopen of the temporary file, render,
\* flush and close, unlink of the target, rename) the target path holds no
\* file or one complete snapshot, never an empty or partly rendered one; the
\* target keeps its content until the unlink, and its new content is the
\* temporary file as it was after the close, fully written.
C11_AtomicPublication ==
    /\ Publishable(target)
    /\ \A i \in DOMAIN seen : Publishable(seen[i].target)
    /\ seen # <<>> =>
         /\ seen[2].target = seen[1].target
         /\ seen[3].target = seen[1].target
         /\ seen[4].target = NoFile
         /\ seen[3].temp.kind = "full"
         /\ seen[5].target = seen[3].temp
         /\ seen[5].temp = NoFile
         /\ target = seen[5].target
         /\ 0 < target.n /\ target.n <= Len(parsed)

\* a second publication has replaced the snapshot of the first: the target
\* held the previous snapshot until the unlink and holds the current one now
C11_Witness ==
    /\ Len(seen) = 5
    /\ seen[1].target.kind = "full"
    /\ seen[2].temp.kind = "partial"
    /\ target.kind = "full"
    /\ seen[1].target.n < target.n

\* main has set b_alive and started the capture thread
Launched == pcC # "idle"

\* a store of false to b_alive has been executed (line 294 or line 642)
FlagCleared ==
    \/ pcC \in {"wake", "done"}
    \/ pcM \in {"join", "close", "wake_fifo", "wake_empty", "free_fifo",
                 "free_empty", "exit"}
    \/ pcM = "exited" /\ Launched

\* C12: once main has set b_alive to true and started the capture thread, no
\* step sets b_alive from false to true, and after either store of false it
\* is false: it changes once, from true to false.
C12_FlagMonotonic ==
    /\ [][Launched => (b_alive' => b_alive)]_vars
    /\ [](FlagCleared => ~b_alive)

\* both stores of false have run, the capture thread's first, and the run
\* has ended
C12_Witness ==
    /\ pcM = "exited" /\ pcC = "done" /\ pcP = "returned"
    /\ pushed # <<>>
    /\ ~b_alive

\* the capture thread does not exist and nothing has been read, allocated
\* or pushed
NothingCaptured ==
    /\ pcC = "idle"
    /\ nreads = 0
    /\ pushed = <<>>
    /\ FreeIds = BufIds

\* libdvbpsi_init returned NULL
InitFailed == engine = <<"initfail">>

\* dvbinfo_open failed: main exited before it called dvbinfo_process
OpenFailed == pcM = "exited" /\ pcP = "idle"

\* C13: when dvbinfo_open fails or libdvbpsi_init returns NULL, the run ends
\* with a failure status, and at the time the failure is detected the capture
\* thread has not been started and has read, allocated and pushed nothing.
C13_InitFailureBeforeLaunch ==
    /\ OpenFailed => (status = EXIT_FAILURE /\ NothingCaptured)
    /\ (pcM = "exited" /\ InitFailed) => status = EXIT_FAILURE
    /\ pcP = "out" => NothingCaptured

\* how many times the failed fopen of the temporary file has been logged
SummaryFailures == Occurrences(log, "summary")

\* how many times libdvbpsi_summary has been called
Publications == Occurrences(engine, "summary")

\* C14: a failed fopen of the temporary summary file is logged, clears
\* b_summary, and does not stop the loop: the buffer of that iteration still
\* goes to the empty pool and b_error is set only if the engine rejected the
\* buffer; afterwards no file of the summary changes, the summary is not
\* rendered again, and the failure is not logged a second time.
C14_SummaryFailureSticky ==
    /\ [](SummaryFailures <= 1)
    /\ [](SummaryFailures = 1 => ~b_summary)
    /\ [][SummaryFailures = 1 =>
            (fileVars' = fileVars /\ Publications' = Publications)]_vars
    /\ [][SummaryFailures' > SummaryFailures =>
            /\ pcP = "buffer"
            /\ Len(parsed') = Len(parsed) + 1
            /\ empty' = Append(empty, pbuf)
            /\ pbuf' = NULL
            /\ b_error' => ~parsed'[Len(parsed')].ok
            /\ pcP' = LoopHead(b_error')]_vars

\* the fopen failed at the first buffer and the process stage has popped
\* the next one
C14_Witness ==
    /\ SummaryFailures = 1
    /\ Len(parsed) = 1 /\ Len(returned) = 1
    /\ pcP = "buffer"
    /\ ~b_summary

\* the engine was initialised and no write and no parse has failed
CleanRun == stream /\ ~SinkFailed /\ ~ParseFailed

\* the tokens of the buffers pushed to the ready queue, in order
PushedToks == [i \in DOMAIN pushed |-> pushed[i].tok]

\* C15: in a run without a write failure, a parse failure or an engine that
\* failed to initialise, when the process stage has left its loop the capture
\* stage has left its own (b_alive is false, it pushes no more), the ready
\* queue is empty, and every buffer pushed has been popped, parsed and
\* returned to the empty pool, in order.
C15_DrainToCompletion ==
    (pcP \in {"exit", "returned"} /\ CleanRun) =>
        /\ ~b_alive
        /\ pcC \in {"wake", "done"}
        /\ fifo = <<>>
        /\ popped = pushed
        /\ [i \in DOMAIN parsed |-> parsed[i].tok] = PushedToks
        /\ returned = PushedToks

\* dvbinfo_process has returned from a run with a sink in which two buffers
\* were pushed, written, parsed and returned
C15_Witness ==
    /\ pcP = "returned" /\ CleanRun
    /\ output
    /\ Len(pushed) = 2 /\ Len(writes) = 2
    /\ returned = PushedToks

\* the steps of main after dvbinfo_process has returned, in program order:
\* each pair is a position of main and the one that follows it
TeardownOrder ==
    {<<"clear", "join">>, <<"join", "close">>, <<"close", "wake_fifo">>,
     <<"wake_fifo", "wake_empty">>, <<"wake_empty", "free_fifo">>,
     <<"free_fifo", "free_empty">>, <<"free_empty", "exit">>,
     <<"exit", "exited">>}

\* main is past pthread_join
Joined ==
    \/ pcM \in {"close", "wake_fifo", "wake_empty", "free_fifo",
                 "free_empty", "exit"}
    \/ pcM = "exited" /\ Launched

\* C16: whatever dvbinfo_process returns, main then clears b_alive, joins the
\* capture thread, closes the handles, wakes the ready queue and the empty
\* queue and frees them, in that order; the handles are closed and the queues
\* woken and freed only when the capture thread has returned and the process
\* stage has returned, and after the frees both queues are gone.
C16_TeardownInOrder ==
    /\ [](pcP = "returned" <=> pcM \in {"clear", "join"} \/ Joined)
    /\ [][pcP = "returned" /\ pcM' # pcM => <<pcM, pcM'>> \in TeardownOrder]_vars
    /\ [](Joined => (pcC = "done" /\ pcP = "returned" /\ ~b_alive))
    /\ []((pcM \in {"exit", "exited"} /\ Launched) =>
            /\ fifo = <<>> /\ empty = <<>>
            /\ \A b \in BufIds : bufs[b].st # "live")

\* teardown has run to the end after dvbinfo_process returned a failure, and
\* buffers the capture thread had pushed were released with the queue
C16_Witness ==
    /\ pcM = "exited" /\ Launched
    /\ ret < 0 /\ status = EXIT_FAILURE
    /\ pushed # <<>>
    /\ \E b \in BufIds : bufs[b].st = "freed"

\* the number of bytes the read that filled the buffer held by the process
\* stage returned
BytesRead == bufs[pbuf].len

\* C17: the length the process stage hands to pf_write and to
\* libdvbpsi_process for a buffer is the number of bytes returned by the read
\* that filled the buffer in its current use, also when that read was short.
C17_OccupiedLength ==
    [][/\ writes' # writes => writes'[Len(writes')].req = BytesRead
       /\ parsed' # parsed => parsed'[Len(parsed')].len = BytesRead]_vars

\* the capture thread is inside the body of its loop
InLoopBody == pcC \in {"count", "pop", "popwait", "read"}

\* C18: a read that brought no data (negative or zero) puts the buffer back
\* into the empty pool and pushes nothing; a zero result sets b_eof, after
\* which the loop body is not entered again and nothing is pushed; a negative
\* result goes back to the test of the loop; a positive result stamps the
\* buffer with the time and pushes it to the ready queue.  Every buffer in
\* the ready queue was filled by a read with a positive result.
C18_ReadResultHandling ==
    /\ [](\A i \in DOMAIN fifo : bufs[fifo[i]].len > 0)
    /\ [](b_eof => ~InLoopBody)
    /\ [][b_eof => pushed' = pushed]_vars
    /\ [][(pcC = "read" /\ pcC' # "read") =>
            /\ pcC' = "loop" /\ cbuf' = NULL
            /\ nreads' = Min(nreads + 1, MaxReads)
            /\ IF pushed' # pushed
               THEN /\ fifo' = Append(fifo, cbuf)
                    /\ empty' = empty
                    /\ bufs'[cbuf].len > 0
                    /\ bufs'[cbuf].i_date = clock' /\ clock' > clock
                    /\ b_eof' = b_eof
               ELSE /\ empty' = Append(empty, cbuf)
                    /\ fifo' = fifo
                    /\ bufs' = bufs]_vars

\* two reads, neither the end of input: one failed and its buffer went back
\* to the empty pool, one brought data and its buffer was pushed
C18_Witness ==
    /\ nreads = 2 /\ ~b_eof
    /\ Len(pushed) = 1
    /\ pcC = "loop" /\ b_alive

\* the capture thread is in its loop: at the test or inside the body
InLoop == pcC = "loop" \/ InLoopBody

\* C19: however the capture loop ends (end of input, no buffer from
\* buffer_new, b_alive found false), the thread stores false to b_alive, then
\* wakes the ready queue, which releases a process stage blocked in
\* fifo_pop, then returns; it pushes nothing once it has left the loop.
C19_CaptureExitProtocol ==
    /\ [][(InLoop /\ ~InLoop') => pcC' = "clear"]_vars
    /\ [][(pcC # "wake" /\ pcC' = "wake") =>
            (pcC = "clear" /\ ~b_alive')]_vars
    /\ [][(pcC # "done" /\ pcC' = "done") =>
            /\ pcC = "wake" /\ ~b_alive
            /\ pcP = "popwait" => popWoken']_vars
    /\ [][~InLoop => pushed' = pushed]_vars

\* the capture thread has returned after buffer_new gave it no buffer: not
\* at end of input, and main has not cleared b_alive
C19_Witness ==
    /\ pcC = "done"
    /\ ~b_eof /\ pcM = "process"
    /\ ~b_alive

\* C20: the capture thread is never blocked in fifo_pop of the empty pool:
\* from the moment it has counted the pool as not empty until its pop the
\* pool stays not empty, and the pop returns the oldest buffer of the pool
\* at once; a buffer is allocated only in a step of the capture thread that
\* counted the pool as empty.
C20_CaptureNeverBlocks ==
    /\ [](pcC # "popwait")
    /\ [](pcC = "pop" => empty # <<>>)
    /\ [][(pcC = "pop" /\ pcC' # "pop") =>
            /\ pcC' = "read"
            /\ cbuf' = Head(empty)
            /\ empty' = Tail(empty)]_vars
    /\ [][FreeIds' # FreeIds => (pcC = "count" /\ empty = <<>>)]_vars

\* the capture thread has popped a recycled buffer from the empty pool while
\* the process stage holds another buffer that it is about to push there
C20_Witness ==
    /\ pcC = "read"
    /\ bufs[cbuf].tok > 0
    /\ pcP = "buffer"
    /\ Len(returned) > 0

\* buffer b is in one of the two queues
Queued(b) == Occurrences(fifo, b) + Occurrences(empty, b) > 0

\* C21: no buffer is freed twice; a freed buffer is in neither queue; the
\* capture thread returns holding no buffer and the process stage returns
\* holding none that is not freed; and when main's teardown has run to its
\* end every buffer that was allocated has been freed.
C21_NoLeakNoDoubleFree ==
    /\ \A b \in BufIds : bufs[b].st # "doublefreed"
    /\ \A b \in BufIds : bufs[b].st = "freed" => ~Queued(b)
    /\ pcC = "done" => cbuf = NULL
    /\ pcP = "returned" => (pbuf = NULL \/ bufs[pbuf].st = "freed")
    /\ (pcM \in {"exit", "exited"} /\ Launched) =>
          \A b \in BufIds : bufs[b].st \in {"unalloc", "freed"}

\* the run has ended with one buffer freed by buffer_free in the process
\* stage, which held it when a write stopped the loop, and another freed
\* with its queue
C21_Witness ==
    /\ pcM = "exited" /\ Launched
    /\ pbuf # NULL /\ bufs[pbuf].st = "freed"
    /\ \E b \in BufIds : b # pbuf /\ bufs[b].st = "freed"
    /\ Len(returned) > 0

====
